---- MODULE Spec2Model ----
(***************************************************************************)
(* A model of the cypher ledger node (src/cypher/blockchain.py): the chain *)
(* of blocks, the pending pool, the ledger projection, the transaction,    *)
(* block and chain validators, the miner, the consensus resolver and the   *)
(* persisted chain a restarted node reloads.                               *)
(***************************************************************************)
EXTENDS Integers, Sequences, FiniteSets, TLC

\* ------------------------------------------------------------------ bounds
\* Longest chain the node or a peer builds.
MaxChain == 3
\* Largest pending pool.
MaxPending == 2
\* Hex digits of a modelled hash (sha256 has 64).
HashDigits == 2
\* Largest initial_difficulty a genesis file carries here.
MaxInitDifficulty == 1
\* Most blocks a peer has mined on top of its fork point.
MaxExt == 2
\* Longest chain of the node that does nothing but mine.
MaxMined == 12

\* ------------------------------------------------------- program constants
\* mine(): "naive difficulty bump every 10 blocks up to 5"
DifficultyCap == 5
BumpEvery == 10
\* genesis.get("block_reward", 50) and the fallback of _load
DefaultReward == 50

COINBASE == "COINBASE"
GENESIS_FAUCET == "GENESIS_FAUCET"

\* ------------------------------------------------------------ input sets
\* Addresses that own a key pair, and the key of each.
Addresses == {"A", "B"}
Keys == {"kA", "kB"}
\* Address the node's operator mines to, and the address peers mine to.
MinerAddresses == {"M"}
PeerMiner == "P"
\* Values time.time() takes.
GenesisTimes == {1, 2}
MineTimes == {3}
PeerTimes == {4}
\* Registered peer URLs.
Peers == {"p1", "p2"}
\* block_reward values a genesis file carries.
Rewards == {1}
\* The premine of the genesis file: one entry, 2 coins to A.
PremineAmount == 2
Premine == << [recipient |-> "A", amount |-> PremineAmount] >>

\* ------------------------------------------------- utils.py and wallet.py
Pow16(k) == 16 ^ k
HashSpace == Pow16(HashDigits)

AddrCode(a) ==
  CASE a = "A" -> 1
    [] a = "B" -> 2
    [] a = "M" -> 3
    [] a = "P" -> 4
    [] a = COINBASE -> 5
    [] a = GENESIS_FAUCET -> 6
    [] OTHER -> 7

KeyCode(k) ==
  CASE k = "kA" -> 1
    [] k = "kB" -> 2
    [] OTHER -> 0

\* address_from_pubkey_hex: the address a public key hashes to.
address_from_pubkey_hex(k) ==
  CASE k = "kA" -> "A"
    [] k = "kB" -> "B"
    [] OTHER -> "none"

\* The key pair whose address is a.
KeyOf(a) == CHOOSE k \in Keys : address_from_pubkey_hex(k) = a

\* tx_message: the payload a signature covers.
tx_message(sender, recipient, amount, nonce) == <<sender, recipient, amount, nonce>>

\* An absent pubkey / signature (None or the empty string).
NoKey == ""
NoSig == [key |-> "", msg |-> <<"", "", 0, 0>>]

\* Wallet.sign_transaction: a deterministic signature of the payload under
\* the key; a signature is the pair of its key and the message it covers.
sign_transaction(k, sender, recipient, amount, nonce) ==
  [key |-> k, msg |-> tx_message(sender, recipient, amount, nonce)]

\* verify_signature: fails closed on anything but the signature of exactly
\* this payload under exactly this key.
verify_signature(pubkey, signature, sender, recipient, amount, nonce) ==
  /\ pubkey \in Keys
  /\ signature.key = pubkey
  /\ signature.msg = tx_message(sender, recipient, amount, nonce)

\* ----------------------------------------------------------------- models
Transaction(sender, recipient, amount, nonce, pubkey, signature) ==
  [sender |-> sender, recipient |-> recipient, amount |-> amount,
   nonce |-> nonce, pubkey |-> pubkey, signature |-> signature]

is_coinbase(tx) == tx.sender \in {COINBASE, GENESIS_FAUCET}

\* A transfer signed by the sender's own key.
SignedTx(sender, recipient, amount, nonce) ==
  Transaction(sender, recipient, amount, nonce, KeyOf(sender),
              sign_transaction(KeyOf(sender), sender, recipient, amount, nonce))

Block(index, timestamp, transactions, previous_hash, nonce, difficulty) ==
  [index |-> index, timestamp |-> timestamp, transactions |-> transactions,
   previous_hash |-> previous_hash, nonce |-> nonce, difficulty |-> difficulty]

\* ------------------------------------------------------- canonical hashing
SigCode(sig) == KeyCode(sig.key) * 3 + sig.msg[3] + sig.msg[4] * 2

TxCode(tx) ==
  AddrCode(tx.sender) * 3 + AddrCode(tx.recipient) * 5 + tx.amount * 7
    + tx.nonce * 11 + KeyCode(tx.pubkey) * 13 + SigCode(tx.signature)

RECURSIVE TxsCode(_, _)
TxsCode(txs, i) ==
  IF i > Len(txs) THEN 0 ELSE i * TxCode(txs[i]) + TxsCode(txs, i + 1)

\* sha256(deterministic_dumps(record)): a hash is modelled by the record it
\* was taken of (no collisions) and a digest of HashDigits hex digits that
\* its leading characters spell.
Digest(b) ==
  (b.index * 7 + b.timestamp * 23 + TxsCode(b.transactions, 1) * 13
     + b.previous_hash.digest * 5 + b.difficulty * 19 + b.nonce * 17) % HashSpace

sha256(b) == [digest |-> Digest(b), pre |-> b]

\* "0" * 64, the previous_hash of a genesis block.
ZeroHash == [digest |-> 0, pre |-> [index |-> -1]]

\* h.startswith("0" * difficulty)
startswith(h, difficulty) ==
  /\ difficulty <= HashDigits
  /\ h.digest < Pow16(HashDigits - difficulty)

hash_block(block) == sha256(block)

\* proof_of_work: the linear scan from nonce 0 for the first nonce whose hash
\* starts with `difficulty` zeros.
RECURSIVE pow_scan(_, _, _)
pow_scan(difficulty, base, nonce) ==
  IF startswith(sha256([base EXCEPT !.nonce = nonce]), difficulty)
    THEN nonce
    ELSE pow_scan(difficulty, base, nonce + 1)

\* proof_of_work with the scan started at nonce 1.
proof_of_work_FromOne(difficulty, base) == pow_scan(difficulty, base, 1)

proof_of_work(difficulty, base) == pow_scan(difficulty, base, 0)

\* ------------------------------------------------------------ ledger state
\* A Python dict: a function whose domain is the keys set so far.
EmptyDict == [k \in {} |-> 0]
Get(d, k, default) == IF k \in DOMAIN d THEN d[k] ELSE default
Put(d, k, v) == [x \in (DOMAIN d) \cup {k} |-> IF x = k THEN v ELSE d[x]]
Max2(a, b) == IF a >= b THEN a ELSE b
Min2(a, b) == IF a <= b THEN a ELSE b

\* ApplyTx that credits the recipient and leaves the sender's balance alone.
ApplyTx_NoDebit(st, tx) ==
  LET noted ==
        IF tx.sender \notin {COINBASE, GENESIS_FAUCET}
          THEN [balances |-> st.balances,
                nonces |-> Put(st.nonces, tx.sender,
                               Max2(Get(st.nonces, tx.sender, 0), tx.nonce + 1))]
          ELSE st
  IN [balances |-> Put(noted.balances, tx.recipient,
                       Get(noted.balances, tx.recipient, 0) + tx.amount),
      nonces |-> noted.nonces]

\* ApplyTx that debits every sender, the special ones too.
ApplyTx_DebitsSpecial(st, tx) ==
  LET debited ==
        [balances |-> Put(st.balances, tx.sender,
                          Get(st.balances, tx.sender, 0) - tx.amount),
         nonces |-> IF tx.sender \notin {COINBASE, GENESIS_FAUCET}
                      THEN Put(st.nonces, tx.sender,
                               Max2(Get(st.nonces, tx.sender, 0), tx.nonce + 1))
                      ELSE st.nonces]
  IN [balances |-> Put(debited.balances, tx.recipient,
                       Get(debited.balances, tx.recipient, 0) + tx.amount),
      nonces |-> debited.nonces]

\* The body of the inner loop of compute_balances_and_nonces.
ApplyTx(st, tx) ==
  LET debited ==
        IF tx.sender \notin {COINBASE, GENESIS_FAUCET}
          THEN [balances |-> Put(st.balances, tx.sender,
                                 Get(st.balances, tx.sender, 0) - tx.amount),
                nonces |-> Put(st.nonces, tx.sender,
                               Max2(Get(st.nonces, tx.sender, 0), tx.nonce + 1))]
          ELSE st
  IN [balances |-> Put(debited.balances, tx.recipient,
                       Get(debited.balances, tx.recipient, 0) + tx.amount),
      nonces |-> debited.nonces]

RECURSIVE ApplyTxs(_, _, _)
ApplyTxs(st, txs, i) ==
  IF i > Len(txs) THEN st ELSE ApplyTxs(ApplyTx(st, txs[i]), txs, i + 1)

RECURSIVE ApplyBlocks(_, _, _)
ApplyBlocks(st, c, i) ==
  IF i > Len(c) THEN st
  ELSE ApplyBlocks(ApplyTxs(st, c[i].transactions, 1), c, i + 1)

\* compute_balances_and_nonces over the chain c.
compute_balances_and_nonces(c) ==
  ApplyBlocks([balances |-> EmptyDict, nonces |-> EmptyDict], c, 1)

\* -------------------------------------------------------------- validation
\* validate_transaction without the nonce check.
validate_transaction_NoNonce(c, tx) ==
  IF is_coinbase(tx) THEN TRUE
  ELSE IF ~(tx.pubkey # NoKey /\ tx.signature # NoSig) THEN FALSE
  ELSE IF ~verify_signature(tx.pubkey, tx.signature, tx.sender, tx.recipient,
                            tx.amount, tx.nonce) THEN FALSE
  ELSE IF address_from_pubkey_hex(tx.pubkey) # tx.sender THEN FALSE
  ELSE LET st == compute_balances_and_nonces(c)
           balance == Get(st.balances, tx.sender, 0)
       IN IF tx.amount <= 0 THEN FALSE
          ELSE IF balance < tx.amount THEN FALSE
          ELSE TRUE

\* validate_transaction that lets an amount of 0 through.
validate_transaction_ZeroAmount(c, tx) ==
  IF is_coinbase(tx) THEN TRUE
  ELSE IF ~(tx.pubkey # NoKey /\ tx.signature # NoSig) THEN FALSE
  ELSE IF ~verify_signature(tx.pubkey, tx.signature, tx.sender, tx.recipient,
                            tx.amount, tx.nonce) THEN FALSE
  ELSE IF address_from_pubkey_hex(tx.pubkey) # tx.sender THEN FALSE
  ELSE LET st == compute_balances_and_nonces(c)
           balance == Get(st.balances, tx.sender, 0)
           expected_nonce == Get(st.nonces, tx.sender, 0)
       IN IF tx.amount < 0 THEN FALSE
          ELSE IF balance < tx.amount THEN FALSE
          ELSE IF tx.nonce # expected_nonce THEN FALSE
          ELSE TRUE

\* validate_transaction of a node whose chain is c.
validate_transaction(c, tx) ==
  IF is_coinbase(tx) THEN TRUE
  ELSE IF ~(tx.pubkey # NoKey /\ tx.signature # NoSig) THEN FALSE
  ELSE IF ~verify_signature(tx.pubkey, tx.signature, tx.sender, tx.recipient,
                            tx.amount, tx.nonce) THEN FALSE
  ELSE IF address_from_pubkey_hex(tx.pubkey) # tx.sender THEN FALSE
  ELSE LET st == compute_balances_and_nonces(c)
           balance == Get(st.balances, tx.sender, 0)
           expected_nonce == Get(st.nonces, tx.sender, 0)
       IN IF tx.amount <= 0 THEN FALSE
          ELSE IF balance < tx.amount THEN FALSE
          ELSE IF tx.nonce # expected_nonce THEN FALSE
          ELSE TRUE

\* An absent previous_block (None).
NoBlock == [index |-> -1]

\* LinkOk without the comparison of previous_hash.
LinkOk_IndexOnly(block, previous_block) ==
  previous_block # NoBlock =>
    block.index = previous_block.index + 1

\* `if previous_block:` of validate_block.
LinkOk(block, previous_block) ==
  previous_block # NoBlock =>
    /\ block.previous_hash = hash_block(previous_block)
    /\ block.index = previous_block.index + 1

\* "Check PoW" of validate_block.
PowOk(block) == startswith(sha256(block), block.difficulty)

\* "Check transactions" of validate_block.
TxsOk(c, block) ==
  \A i \in 1..Len(block.transactions) : validate_transaction(c, block.transactions[i])

\* validate_block of a node whose chain is c.
validate_block(c, block, previous_block) ==
  /\ LinkOk(block, previous_block)
  /\ PowOk(block)
  /\ TxsOk(c, block)

\* validate_chain of a node whose chain is c, applied to the candidate.
validate_chain(c, candidate) ==
  \A i \in 1..Len(candidate) :
    validate_block(c, candidate[i], IF i > 1 THEN candidate[i - 1] ELSE NoBlock)

\* ------------------------------------------------------------------ state
VARIABLES
  genesisFile,           \* the genesis.json the node was created with
  genesis,               \* self.genesis
  chain,                 \* self.chain
  current_transactions,  \* self.current_transactions, the pending pool
  nodes,                 \* self.nodes, the registered peers
  db,                    \* the chain file written by _persist
  mining,                \* per request thread: where its mine() call stands
  last,                  \* the last call that completed, what it returned, what it met
  included               \* every (sender, nonce) a block of self.chain has carried so far

vars == <<genesisFile, genesis, chain, current_transactions, nodes, db, mining, last,
          included>>

\* Request threads that may run mine() at the same time.
Threads == {"t1", "t2"}

Idle == [pc |-> "idle"]

Last(c) == c[Len(c)]

\* The (sender, nonce) pairs of the transfers in the chain c.
SenderNonces(c) ==
  { <<c[i].transactions[j].sender, c[i].transactions[j].nonce>> :
      <<i, j>> \in { ij \in (1..Len(c)) \X (1..(MaxPending + 1)) :
                       /\ ij[2] <= Len(c[ij[1]].transactions)
                       /\ ~is_coinbase(c[ij[1]].transactions[ij[2]]) } }

\* ---------------------------------------------------------------- genesis
\* _create_genesis_block: one GENESIS_FAUCET transaction per premine entry,
\* index 0, nonce 0 (not mined), the configured difficulty.
PremineTxs(premine) ==
  [i \in 1..Len(premine) |->
     Transaction(GENESIS_FAUCET, premine[i].recipient, premine[i].amount, 0, NoKey, NoSig)]

create_genesis_block(cfg, ts) ==
  Block(0, ts, PremineTxs(cfg.premine), ZeroHash, 0, cfg.initial_difficulty)

GenesisFiles ==
  [initial_difficulty : 0..MaxInitDifficulty, block_reward : Rewards, premine : {Premine}]

\* Blockchain.__init__ with no chain file: read genesis.json, create the
\* genesis block, persist.
Init ==
  \E cfg \in GenesisFiles, ts \in GenesisTimes :
    /\ genesisFile = cfg
    /\ genesis = cfg
    /\ chain = << create_genesis_block(cfg, ts) >>
    /\ current_transactions = << >>
    /\ nodes = {}
    /\ db = chain
    /\ mining = [t \in Threads |-> Idle]
    /\ last = [op |-> "init", ret |-> TRUE]
    /\ included = {}

\* Blockchain.__init__ when the chain file exists: _load.  self.genesis is
\* not set yet when _load runs, so block_reward falls back to the default.
load(file) ==
  IF Len(file) > 0
    THEN [initial_difficulty |-> file[1].difficulty,
          block_reward |-> DefaultReward,
          premine |-> << >>]
    ELSE [initial_difficulty |-> 1, block_reward |-> DefaultReward, premine |-> << >>]

Restart ==
  /\ \A t \in Threads : mining[t] = Idle
  /\ chain' = db
  /\ genesis' = load(db)
  /\ current_transactions' = << >>
  /\ nodes' = {}
  /\ last' = [op |-> "restart", ret |-> TRUE]
  /\ UNCHANGED <<genesisFile, db, mining, included>>

\* ------------------------------------------------------------ transactions
\* Transfers clients submit: every sender, nonce and the amount 1, signed by
\* the sender, and one whose signature is missing.
TxAmounts == {1}
TxNonces == {0, 1}
TxInputs ==
  { SignedTx(sr[1], sr[2], a, n) :
      sr \in { p \in Addresses \X Addresses : p[1] # p[2] }, a \in TxAmounts, n \in TxNonces }
  \cup { Transaction("A", "B", 1, 0, "kA", NoSig) }

new_transaction(tx) ==
  LET ok == validate_transaction(chain, tx)
  IN /\ current_transactions' =
          IF ok THEN Append(current_transactions, tx) ELSE current_transactions
     /\ last' = [op |-> "new_transaction", ret |-> ok, tx |-> tx]
     /\ UNCHANGED <<genesisFile, genesis, chain, nodes, db, mining, included>>

NewTransaction ==
  \E tx \in TxInputs :
    /\ Len(current_transactions) < MaxPending
    /\ new_transaction(tx)

\* ------------------------------------------------------------------ mining
\* NextDifficulty with the bump keyed on the index of the block being mined.
NextDifficulty_OnBlockIndex(prev) ==
  Min2(DifficultyCap,
       IF (prev.index + 1) % BumpEvery = 0
         THEN prev.difficulty + 1 ELSE prev.difficulty)

\* "naive difficulty bump every 10 blocks up to 5"
NextDifficulty(prev) ==
  Min2(DifficultyCap,
       IF prev.index % BumpEvery = 0 /\ prev.index # 0
         THEN prev.difficulty + 1 ELSE prev.difficulty)

\* The reward transaction and the base fields mine() assembles on top of prev.
MineBase(prev, pending, reward, miner_address, ts) ==
  LET reward_tx == Transaction(COINBASE, miner_address, reward, 0, NoKey, NoSig)
  IN Block(prev.index + 1, ts, << reward_tx >> \o pending, hash_block(prev), 0,
           NextDifficulty(prev))

\* Block(**{**base, "nonce": nonce}) with the nonce of proof_of_work.
MineBlock(base) == [base EXCEPT !.nonce = proof_of_work(base.difficulty, base)]

\* MineAppended leaving the pending pool as it was.
MineAppended_KeepsPool(block) ==
  /\ chain' = Append(chain, block)
  /\ current_transactions' = current_transactions
  /\ db' = chain'
  /\ included' = included \cup SenderNonces(chain')
  /\ last' = [op |-> "mine", ret |-> TRUE]

\* The end of mine(): append, clear the pool, persist, return the block.
MineAppended(block) ==
  /\ chain' = Append(chain, block)
  /\ current_transactions' = << >>
  /\ db' = chain'
  /\ included' = included \cup SenderNonces(chain')
  /\ last' = [op |-> "mine", ret |-> TRUE]

\* MineRaised that empties the pending pool on the way out.
MineRaised_DropsPool ==
  /\ last' = [op |-> "mine", ret |-> FALSE]
  /\ current_transactions' = << >>
  /\ UNCHANGED <<chain, db, included>>

\* raise ValueError("mined invalid block")
MineRaised ==
  /\ last' = [op |-> "mine", ret |-> FALSE]
  /\ UNCHANGED <<chain, current_transactions, db, included>>

\* mine(miner_address), run from start to end with nothing in between.
Mine ==
  \E miner_address \in MinerAddresses, ts \in MineTimes :
    /\ Len(chain) < MaxChain
    /\ \A t \in Threads : mining[t] = Idle
    /\ LET prev == Last(chain)
           block == MineBlock(MineBase(prev, current_transactions,
                                       genesis.block_reward, miner_address, ts))
       IN IF validate_block(chain, block, prev) THEN MineAppended(block) ELSE MineRaised
    /\ UNCHANGED <<genesisFile, genesis, nodes, mining>>

\* mine(miner_address) of a node left to mine a long run of blocks.
MineLong ==
  \E miner_address \in MinerAddresses, ts \in MineTimes :
    /\ Len(chain) < MaxMined
    /\ \A t \in Threads : mining[t] = Idle
    /\ LET prev == Last(chain)
           block == MineBlock(MineBase(prev, current_transactions,
                                       genesis.block_reward, miner_address, ts))
       IN IF validate_block(chain, block, prev) THEN MineAppended(block) ELSE MineRaised
    /\ UNCHANGED <<genesisFile, genesis, nodes, mining>>

\* mine() of request thread t, one step at a time: read the head and assemble
\* the base fields, search the nonce, validate, append.
MineRead(t) ==
  \E miner_address \in MinerAddresses, ts \in MineTimes :
    /\ mining[t] = Idle
    /\ Len(chain) < MaxChain
    /\ mining' = [mining EXCEPT ![t] =
         [pc |-> "search", prev |-> Last(chain),
          block |-> MineBase(Last(chain), current_transactions, genesis.block_reward,
                             miner_address, ts)]]
    /\ UNCHANGED <<genesisFile, genesis, chain, current_transactions, nodes, db, last,
                   included>>

MineSearch(t) ==
  /\ mining[t].pc = "search"
  /\ mining' = [mining EXCEPT ![t] =
       [pc |-> "validate", prev |-> mining[t].prev, block |-> MineBlock(mining[t].block)]]
  /\ UNCHANGED <<genesisFile, genesis, chain, current_transactions, nodes, db, last,
                 included>>

MineValidate(t) ==
  /\ mining[t].pc = "validate"
  /\ IF validate_block(chain, mining[t].block, mining[t].prev)
       THEN /\ mining' = [mining EXCEPT ![t] = [@ EXCEPT !.pc = "append"]]
            /\ UNCHANGED <<chain, current_transactions, db, last, included>>
       ELSE /\ mining' = [mining EXCEPT ![t] = Idle]
            /\ MineRaised
  /\ UNCHANGED <<genesisFile, genesis, nodes>>

MineAppend(t) ==
  /\ mining[t].pc = "append"
  /\ Len(chain) < MaxChain
  /\ MineAppended(mining[t].block)
  /\ mining' = [mining EXCEPT ![t] = Idle]
  /\ UNCHANGED <<genesisFile, genesis, nodes>>

\* -------------------------------------------------------------- networking
RegisterNode ==
  \E p \in Peers :
    /\ p \notin nodes
    /\ nodes' = nodes \cup {p}
    /\ last' = [op |-> "register_node", ret |-> TRUE]
    /\ UNCHANGED <<genesisFile, genesis, chain, current_transactions, db, mining, included>>

\* What a peer mines: coinbase to its own address, then the transfers it took.
PeerTxSeqs ==
  { << >>,
    << SignedTx("A", "B", 1, 0) >>,
    << SignedTx("A", "B", 1, 0), SignedTx("A", "B", 1, 1) >> }

\* A block a peer puts on prev; a forged one carries a nonce that is not the
\* one the search returns.
PeerBlock(prev, txs, reward, ts, forged) ==
  LET mined == MineBlock(MineBase(prev, txs, reward, PeerMiner, ts))
  IN IF forged THEN [mined EXCEPT !.nonce = mined.nonce + 1] ELSE mined

\* c with j peer blocks on it: the first carries txs, the last may be forged.
RECURSIVE Extend(_, _, _, _, _, _)
Extend(c, j, txs, reward, ts, forged) ==
  IF j = 0 THEN c
  ELSE Extend(Append(c, PeerBlock(Last(c), txs, reward, ts, forged /\ j = 1)),
              j - 1, << >>, reward, ts, forged)

\* The chains a peer may serve to a node whose chain is c.  The peer fetched
\* c earlier and mined one block on it (carrying transfers, or forged), or it
\* kept the genesis block only and mined a run of coinbase-only blocks.
Candidates(c, reward) ==
  UNION { { Extend(c, 1, txs, reward, ts, FALSE) : txs \in PeerTxSeqs }
          \cup { Extend(c, 1, << >>, reward, ts, TRUE) }
          \cup { Extend(<< c[1] >>, j, << >>, reward, ts, FALSE) : j \in 1..MaxExt } :
          ts \in PeerTimes }

\* What a peer serves when its answer leaves out the block its run was mined
\* on: the JSON list is turned into blocks as it comes.
Headless(c, reward) ==
  { Tail(Extend(<< c[1] >>, MaxExt, << >>, reward, ts, FALSE)) : ts \in PeerTimes }

\* A fetch that timed out, was refused, was not OK or was malformed.
FetchFailed == << >>

\* ResolveStep taking a candidate that is as long as the longest so far.
ResolveStep_NotStrict(self_chain, acc, remote) ==
  IF remote = FetchFailed THEN acc
  ELSE IF Len(remote) >= Len(acc.longest) /\ validate_chain(self_chain, remote)
    THEN [longest |-> remote, replaced |-> TRUE]
    ELSE acc

\* ResolveStep where a failed fetch throws away what the peers visited before
\* it had served.
ResolveStep_FailResets(self_chain, acc, remote) ==
  IF remote = FetchFailed THEN [longest |-> self_chain, replaced |-> FALSE]
  ELSE IF Len(remote) > Len(acc.longest) /\ validate_chain(self_chain, remote)
    THEN [longest |-> remote, replaced |-> TRUE]
    ELSE acc

\* One turn of the loop of resolve_conflicts: acc is (longest, replaced), remote
\* the chain fetched from the peer visited.
ResolveStep(self_chain, acc, remote) ==
  IF remote = FetchFailed THEN acc
  ELSE IF Len(remote) > Len(acc.longest) /\ validate_chain(self_chain, remote)
    THEN [longest |-> remote, replaced |-> TRUE]
    ELSE acc

RECURSIVE ResolveLoop(_, _, _, _)
ResolveLoop(self_chain, acc, fetched, i) ==
  IF i > Len(fetched) THEN acc
  ELSE ResolveLoop(self_chain, ResolveStep(self_chain, acc, fetched[i]), fetched, i + 1)

\* resolve_conflicts when the peers, in the order visited, answer `fetched`.
resolve_conflicts(fetched) ==
  LET out == ResolveLoop(chain, [longest |-> chain, replaced |-> FALSE], fetched, 1)
  IN /\ chain' = IF out.replaced THEN out.longest ELSE chain
     /\ db' = IF out.replaced THEN out.longest ELSE db
     /\ included' = included \cup SenderNonces(chain')
     /\ last' = [op |-> "resolve_conflicts", ret |-> out.replaced,
                 skipped |-> \E i \in DOMAIN fetched : fetched[i] = FetchFailed]
     /\ UNCHANGED <<genesisFile, genesis, current_transactions, nodes, mining>>

\* Every answer the registered peers may give, in every order of visit.
Fetches ==
  LET answers == { c \in Candidates(chain, genesisFile.block_reward) : Len(c) <= MaxChain }
                   \cup {FetchFailed}
  IN [1..Cardinality(nodes) -> answers]

ResolveConflicts ==
  \E fetched \in Fetches : resolve_conflicts(fetched)

\* The answers of peers that may also serve a list of blocks that does not
\* start at a genesis block.
FetchesAny ==
  LET answers == { c \in Candidates(chain, genesisFile.block_reward)
                          \cup Headless(chain, genesisFile.block_reward) :
                     Len(c) <= MaxChain }
                   \cup {FetchFailed}
  IN [1..Cardinality(nodes) -> answers]

ResolveConflictsAny ==
  \E fetched \in FetchesAny : resolve_conflicts(fetched)

\* ------------------------------------------------------------ specification
Next ==
  \/ NewTransaction
  \/ Mine
  \/ ResolveConflicts
  \/ RegisterNode
  \/ Restart

Spec == Init /\ [][Next]_vars

\* The node with no API layer in front of new_transaction: clients submit any
\* transaction record, special senders and malformed ones included.
AnyAmounts == {0, 1, 3}

\* A transfer with no signature, with no pubkey, with a signature over another
\* amount, and with the recipient's key and signature in place of the sender's.
Malformed(s, r, a, n) ==
  { Transaction(s, r, a, n, KeyOf(s), NoSig),
    Transaction(s, r, a, n, NoKey, sign_transaction(KeyOf(s), s, r, a, n)),
    Transaction(s, r, a, n, KeyOf(s), sign_transaction(KeyOf(s), s, r, a + 1, n)),
    Transaction(s, r, a, n, KeyOf(r), sign_transaction(KeyOf(r), s, r, a, n)) }

TxUniverse ==
  { SignedTx(sr[1], sr[2], a, n) :
      sr \in { p \in Addresses \X Addresses : p[1] # p[2] }, a \in AnyAmounts, n \in TxNonces }
  \cup Malformed("A", "B", 1, 0) \cup Malformed("B", "A", 1, 0)
  \cup { Transaction(COINBASE, "B", 0 - 1, 1, "kA", sign_transaction("kA", "A", "B", 1, 0)),
         Transaction(GENESIS_FAUCET, "B", 0, 0, NoKey, NoSig) }

NewTransactionAny ==
  \E tx \in TxUniverse :
    /\ Len(current_transactions) < MaxPending
    /\ new_transaction(tx)

NextTx ==
  \/ NewTransactionAny
  \/ Mine

\* One genesis file and creation time: proof of work plays no part here.
InitTx ==
  /\ Init
  /\ genesisFile.initial_difficulty = 0
  /\ chain[1].timestamp = 1

SpecTx == InitTx /\ [][NextTx]_vars

\* The node serving requests on several threads: mine() of one request
\* interleaves with mine() of another and with resolve_conflicts.
NextConc ==
  \/ \E t \in Threads : MineRead(t)
  \/ \E t \in Threads : MineSearch(t)
  \/ \E t \in Threads : MineValidate(t)
  \/ \E t \in Threads : MineAppend(t)
  \/ ResolveConflicts
  \/ RegisterNode

SpecConc == Init /\ [][NextConc]_vars

\* The node that mines block after block, long enough for the difficulty
\* schedule to act.
NextDiff ==
  \/ MineLong
  \/ RegisterNode

\* A genesis file of difficulty 0: the first harder block has difficulty 1.
InitDiff ==
  /\ Init
  /\ genesisFile.initial_difficulty = 0

SpecDiff == InitDiff /\ [][NextDiff]_vars

\* The node among peers that serve any list of blocks, its operations run one
\* at a time.
NextPeers ==
  \/ NewTransaction
  \/ Mine
  \/ ResolveConflictsAny
  \/ RegisterNode

SpecPeers == Init /\ [][NextPeers]_vars

\* ------------------------------------------------------------------ claims
Special == {COINBASE, GENESIS_FAUCET}

\* The transfers of sender a in the chain c, in chain order (block index, then
\* position in the block).
RECURSIVE FlatTxs(_, _)
FlatTxs(c, i) == IF i > Len(c) THEN << >> ELSE c[i].transactions \o FlatTxs(c, i + 1)

TransfersOf(c, a) == SelectSeq(FlatTxs(c, 1), LAMBDA tx : tx.sender = a)

\* C1: every non-special address has a balance >= 0 in the projection of the
\* node's chain, whatever transfers were submitted, mined and adopted.
C1_NoNegativeBalance ==
  LET balances == compute_balances_and_nonces(chain).balances
  IN \A a \in (DOMAIN balances) \ Special : balances[a] >= 0

\* C2: in the node's chain the transfers of each non-special sender carry
\* strictly increasing nonces in chain order, so no signed transfer is in it
\* twice.
C2_NoncesStrictlyIncrease ==
  \A a \in Addresses :
    LET ts == TransfersOf(chain, a)
    IN \A i \in 1..Len(ts) : \A j \in 1..Len(ts) : i < j => ts[i].nonce < ts[j].nonce

\* A transaction is valid against the running ledger st of its own chain.
SeqTxOk(st, tx) ==
  \/ tx.sender \in Special
  \/ /\ tx.pubkey # NoKey
     /\ tx.signature # NoSig
     /\ verify_signature(tx.pubkey, tx.signature, tx.sender, tx.recipient, tx.amount, tx.nonce)
     /\ address_from_pubkey_hex(tx.pubkey) = tx.sender
     /\ tx.amount > 0
     /\ Get(st.balances, tx.sender, 0) >= tx.amount
     /\ tx.nonce = Get(st.nonces, tx.sender, 0)

RECURSIVE SeqTxsOk(_, _, _)
SeqTxsOk(st, txs, i) ==
  IF i > Len(txs) THEN TRUE
  ELSE SeqTxOk(st, txs[i]) /\ SeqTxsOk(ApplyTx(st, txs[i]), txs, i + 1)

\* A fully valid chain: every non-genesis block links to its predecessor and
\* meets its difficulty, and every transaction is valid when the chain itself
\* is replayed from its genesis.
FullyValid(c) ==
  /\ \A i \in 2..Len(c) : LinkOk(c[i], c[i - 1]) /\ PowOk(c[i])
  /\ \A i \in 1..Len(c) :
       SeqTxsOk(compute_balances_and_nonces(SubSeq(c, 1, i - 1)), c[i].transactions, 1)

\* C3: resolve_conflicts adopts a chain and returns true whenever a peer
\* serves a fully valid chain strictly longer than the local one.  Stated for
\* candidates whose genesis hash meets the genesis difficulty, so that the
\* proof-of-work check of the genesis block (C6) is not what decides it.
C3_AdoptsLongerFullyValid ==
  [][\A fetched \in Fetches :
       ( /\ resolve_conflicts(fetched)
         /\ \E i \in DOMAIN fetched :
              /\ fetched[i] # FetchFailed
              /\ Len(fetched[i]) > Len(chain)
              /\ FullyValid(fetched[i])
              /\ PowOk(fetched[i][1]) )
       => (last'.ret = TRUE /\ chain' # chain /\ Len(chain') > Len(chain))]_vars

\* Two transfers of one sender with the nonces n and n+1 in the block.
HasConsecutiveTransfers(block, st) ==
  \E j \in 1..Len(block.transactions) : \E k \in 1..Len(block.transactions) :
    LET t1 == block.transactions[j]
        t2 == block.transactions[k]
    IN /\ j < k
       /\ t1.sender \notin Special
       /\ t2.sender = t1.sender
       /\ t1.nonce = Get(st.nonces, t1.sender, 0)
       /\ t2.nonce = t1.nonce + 1
       /\ t1.amount + t2.amount <= Get(st.balances, t1.sender, 0)

\* C4: a correctly linked, correctly mined block on the head of the chain that
\* carries two transfers of one sender with the nonces n and n+1, each valid
\* after the ones before it, is accepted by validate_block.
C4_SequentialInBlock ==
  \A c \in Candidates(chain, genesisFile.block_reward) :
    LET block == Last(c)
        st == compute_balances_and_nonces(chain)
    IN ( /\ c = Append(chain, block)
         /\ LinkOk(block, Last(chain))
         /\ PowOk(block)
         /\ HasConsecutiveTransfers(block, st)
         /\ SeqTxsOk(st, block.transactions, 1) )
       => validate_block(chain, block, Last(chain))

\* C5: whatever interleaves with a mine() call, every block after the first
\* links to the block before it: previous_hash is that block's hash and the
\* index is the position in the chain.
C5_LinkedUnderInterleaving ==
  \A i \in 2..Len(chain) :
    /\ chain[i].previous_hash = hash_block(chain[i - 1])
    /\ chain[i].index = i - 1

\* C6: validate_block(genesis, None) depends on the genesis transactions only,
\* not on the genesis hash meeting the difficulty, so a chain that is just a
\* genesis block with nonce 0 passes validate_chain.
C6_GenesisSkipsPow ==
  /\ validate_block(chain, chain[1], NoBlock) = TxsOk(chain, chain[1])
  /\ (chain[1].nonce = 0 /\ chain[1].difficulty >= 1 /\ TxsOk(chain, chain[1]))
       => validate_chain(chain, << chain[1] >>)

\* The answers of `fetched` that pass validate_chain of the node whose chain is
\* c and are strictly longer than c.
ValidLonger(c, fetched) ==
  { i \in DOMAIN fetched :
      /\ fetched[i] # FetchFailed
      /\ Len(fetched[i]) > Len(c)
      /\ validate_chain(c, fetched[i]) }

\* What the loop of resolve_conflicts ends with, for every order of answers:
\* nothing when no answer is valid and longer, and otherwise one of the valid
\* longer answers that none of them exceeds in length.
C7_LoopPicksLongestValid ==
  \A fetched \in Fetches :
    LET out == ResolveLoop(chain, [longest |-> chain, replaced |-> FALSE], fetched, 1)
        good == ValidLonger(chain, fetched)
    IN IF good = {}
         THEN ~out.replaced /\ out.longest = chain
         ELSE /\ out.replaced
              /\ \E i \in good : out.longest = fetched[i]
              /\ \A j \in good : Len(fetched[j]) <= Len(out.longest)

\* What a resolve_conflicts call does to the chain.
C7_ResolveStep ==
  last'.op = "resolve_conflicts" =>
    /\ Len(chain') >= Len(chain)
    /\ last'.ret = FALSE => chain' = chain
    /\ last'.ret = TRUE =>
         /\ chain' \in Candidates(chain, genesisFile.block_reward)
         /\ Len(chain') > Len(chain)
         /\ validate_chain(chain, chain')
         /\ db' = chain'

\* C7: resolve_conflicts changes the chain only to a fetched candidate that
\* passes validate_chain and is strictly longer, the one adopted is a longest
\* of the valid fetched candidates in every order of visit, and with no such
\* candidate it returns false and leaves the chain as it was.
C7_AdoptsOnlyLongestValid ==
  /\ []C7_LoopPicksLongestValid
  /\ [][C7_ResolveStep]_vars

\* A state where resolve_conflicts has just adopted a peer's chain.
C7_Witness ==
  /\ last.op = "resolve_conflicts"
  /\ last.ret = TRUE
  /\ Last(chain).transactions[1].recipient = PeerMiner

\* Some transfer of tx.sender with a nonce >= tx.nonce is among the pairs.
Consumed(pairs, tx) ==
  \E p \in pairs : p[1] = tx.sender /\ p[2] >= tx.nonce

\* C8 as stated: once a transfer of S with nonce n has been in the node's
\* chain, every later new_transaction of S with a nonce <= n returns false and
\* leaves the pool unchanged.
C8_OnceIncludedRejected ==
  [][(last'.op = "new_transaction" /\ Consumed(included, last'.tx))
       => (last'.ret = FALSE /\ current_transactions' = current_transactions)]_vars

\* C8 as amended: while a transfer of S with nonce n is in the node's chain,
\* every new_transaction of S with a nonce <= n returns false and leaves the
\* pool unchanged.
C8_WhileIncludedRejected ==
  [][(last'.op = "new_transaction" /\ Consumed(SenderNonces(chain), last'.tx))
       => (last'.ret = FALSE /\ current_transactions' = current_transactions)]_vars

\* A correctly signed, affordable transfer has just been rejected because the
\* chain holds a transfer of its sender with the same or a later nonce.
C8_Witness ==
  /\ last.op = "new_transaction"
  /\ last.ret = FALSE
  /\ Consumed(SenderNonces(chain), last.tx)
  /\ last.tx = SignedTx(last.tx.sender, last.tx.recipient, last.tx.amount, last.tx.nonce)
  /\ Get(compute_balances_and_nonces(chain).balances, last.tx.sender, 0) >= last.tx.amount

\* C10: the coinbase of a block mine() has just produced pays the block_reward
\* of the genesis file the node was created with.
C10_CoinbasePaysGenesisReward ==
  (last.op = "mine" /\ last.ret = TRUE)
    => Last(chain).transactions[1].amount = genesisFile.block_reward

\* The conditions under which validate_transaction is to return true, on the
\* ledger projected from the chain c.
TxAcceptable(c, tx) ==
  LET st == compute_balances_and_nonces(c)
  IN \/ tx.sender \in {COINBASE, GENESIS_FAUCET}
     \/ /\ tx.pubkey # NoKey /\ tx.signature # NoSig
        /\ verify_signature(tx.pubkey, tx.signature, tx.sender, tx.recipient, tx.amount,
                            tx.nonce)
        /\ address_from_pubkey_hex(tx.pubkey) = tx.sender
        /\ tx.amount > 0
        /\ Get(st.balances, tx.sender, 0) >= tx.amount
        /\ tx.nonce = Get(st.nonces, tx.sender, 0)

\* C9: new_transaction, which returns what validate_transaction returns,
\* accepts a transaction exactly when its sender is special or it is signed by
\* the sender's key, has a positive amount the sender's balance covers, and
\* carries the sender's next nonce.
C9_ValidateTransactionExact ==
  last.op = "new_transaction" => (last.ret = TxAcceptable(chain, last.tx))

\* An accepted signed transfer, an accepted special-sender transaction and a
\* rejected transfer have each been seen: here, the accepted transfer.
C9_Witness ==
  /\ last.op = "new_transaction"
  /\ last.ret = TRUE
  /\ last.tx.sender \notin {COINBASE, GENESIS_FAUCET}
  /\ \E i \in 1..Len(current_transactions) : current_transactions[i].sender = COINBASE

\* The difficulty mine() is to give the block of index k on a previous block of
\* difficulty d, with the bump on the blocks of index k.
ScheduledDifficulty(bumped, d) ==
  LET raw == IF bumped THEN d + 1 ELSE d
  IN IF raw > DifficultyCap THEN DifficultyCap ELSE raw

\* k is a nonzero multiple of 10.
NonzeroMultipleOfTen(k) == \E m \in 1..k : k = BumpEvery * m

\* C11 as stated: a block mine() has just produced has the previous block's
\* difficulty, plus 1 when its own index is a nonzero multiple of 10, capped
\* at 5.
C11_BumpOnBlockIndex ==
  (last.op = "mine" /\ last.ret = TRUE) =>
    LET block == Last(chain)
        prev == chain[Len(chain) - 1]
    IN block.difficulty =
         ScheduledDifficulty(NonzeroMultipleOfTen(block.index), prev.difficulty)

\* Previous blocks of every index and difficulty around the bump and the cap.
DifficultyInputs == [index : 0..31, difficulty : 0..7]

\* C11 as amended: a block mine() has just produced has the previous block's
\* difficulty, plus 1 when the previous block's index is a nonzero multiple of
\* 10 (the blocks of index 11, 21, ...), capped at 5; the difficulty mine()
\* computes is never above 5.
C11_BumpAfterMultipleOfTen ==
  /\ (last.op = "mine" /\ last.ret = TRUE) =>
       LET block == Last(chain)
           prev == chain[Len(chain) - 1]
       IN /\ block.difficulty =
               ScheduledDifficulty(NonzeroMultipleOfTen(prev.index), prev.difficulty)
          /\ block.difficulty <= DifficultyCap
  /\ \A prev \in DifficultyInputs :
       /\ NextDifficulty(prev) =
            ScheduledDifficulty(NonzeroMultipleOfTen(prev.index), prev.difficulty)
       /\ NextDifficulty(prev) <= DifficultyCap

\* mine() has just produced the block of index 11, one harder than block 10.
C11_Witness ==
  /\ last.op = "mine"
  /\ last.ret = TRUE
  /\ Last(chain).index = BumpEvery + 1
  /\ Last(chain).difficulty = chain[Len(chain) - 1].difficulty + 1

\* C12: a successful mine(miner_address) appends exactly one block to the chain
\* it found, the block carries the coinbase to miner_address and then the
\* pending pool in submission order, links to the former last block by hash and
\* index, and the pending pool is empty afterwards.
C12_MineAppendsOneBlock ==
  [][(last'.op = "mine" /\ last'.ret = TRUE) =>
       LET block == Last(chain')
           txs == block.transactions
       IN /\ chain' = Append(chain, block)
          /\ Len(txs) = Len(current_transactions) + 1
          /\ txs[1].sender = COINBASE
          /\ txs[1].recipient \in MinerAddresses
          /\ SubSeq(txs, 2, Len(txs)) = current_transactions
          /\ block.previous_hash = hash_block(Last(chain))
          /\ block.index = Last(chain).index + 1
          /\ current_transactions' = << >>]_vars

\* mine() has just put a block with two pending transfers on the chain.
C12_Witness ==
  /\ last.op = "mine"
  /\ last.ret = TRUE
  /\ Len(Last(chain).transactions) = 3
  /\ Last(chain).transactions[1].sender = COINBASE
  /\ Last(chain).transactions[2].sender \notin Special
  /\ current_transactions = << >>

\* C13: with operations run one at a time, the node's chain is never empty,
\* its first block has index 0, and every later block has its position as
\* index and the hash of the whole block before it as previous_hash.
C13_ChainLinkedFromZero ==
  /\ Len(chain) > 0
  /\ chain[1].index = 0
  /\ \A i \in 2..Len(chain) :
       /\ chain[i].index = i - 1
       /\ chain[i].previous_hash = hash_block(chain[i - 1])

\* The chain c with the amount of transaction j of block i set to a.
Tamper(c, i, j, a) == [c EXCEPT ![i].transactions[j].amount = a]

TamperAmounts == 0..(PremineAmount + 1)

\* The chains validate_chain is given: the node's own and what peers serve.
Served == {chain} \cup Candidates(chain, genesisFile.block_reward)

\* The places (block, transaction, new amount) where c can be tampered with.
TamperPlaces(c) ==
  { p \in (1..Len(c)) \X (1..(MaxPending + 1)) \X TamperAmounts :
      /\ p[2] <= Len(c[p[1]].transactions)
      /\ p[3] # c[p[1]].transactions[p[2]].amount }

\* C14 as stated: a chain validate_chain accepts is rejected once the amount
\* of any one transaction in any one block is changed.
C14_AnyTamperRejected ==
  \A c \in Served :
    validate_chain(chain, c) =>
      \A p \in TamperPlaces(c) : ~validate_chain(chain, Tamper(c, p[1], p[2], p[3]))

\* C14 as amended: a chain validate_chain accepts is rejected once the amount
\* of a transaction is changed in a block that has a successor, or the amount
\* of a signed transfer is changed in the last block.
C14_LinkedOrSignedTamperRejected ==
  \A c \in Served :
    validate_chain(chain, c) =>
      \A p \in TamperPlaces(c) :
        (p[1] < Len(c) \/ ~is_coinbase(c[p[1]].transactions[p[2]]))
          => ~validate_chain(chain, Tamper(c, p[1], p[2], p[3]))

\* validate_chain accepts a served chain of three blocks whose last block
\* carries a signed transfer.
C14_Witness ==
  \E c \in Served :
    /\ validate_chain(chain, c)
    /\ Len(c) = 3
    /\ \E j \in 1..Len(c[3].transactions) : ~is_coinbase(c[3].transactions[j])

\* The hash of the base fields with the nonce n starts with the zeros the
\* difficulty of the base asks for.
MeetsTarget(base, n) == startswith(sha256([base EXCEPT !.nonce = n]), base.difficulty)

\* The base fields mine() would assemble in this state.
MineBases ==
  { MineBase(Last(chain), current_transactions, genesis.block_reward, miner_address, ts) :
      miner_address \in MinerAddresses, ts \in MineTimes }

\* C15: proof_of_work returns a nonce n >= 0 whose hash meets the difficulty,
\* no smaller nonce does, and the proof-of-work check of validate_block accepts
\* the block built from the base fields and n; the block mine() has appended
\* carries such a nonce.
C15_ProofOfWorkMinimal ==
  /\ \A base \in MineBases :
       LET n == proof_of_work(base.difficulty, base)
       IN /\ n \in Nat
          /\ MeetsTarget(base, n)
          /\ \A m \in 0..(n - 1) : ~MeetsTarget(base, m)
          /\ PowOk([base EXCEPT !.nonce = n])
  /\ (last.op = "mine" /\ last.ret = TRUE) =>
       /\ MeetsTarget(Last(chain), Last(chain).nonce)
       /\ \A m \in 0..(Last(chain).nonce - 1) : ~MeetsTarget(Last(chain), m)

\* mine() has appended a block of difficulty 1 that took a search: nonce 0
\* did not meet the target.
C15_Witness ==
  /\ last.op = "mine"
  /\ last.ret = TRUE
  /\ Last(chain).difficulty >= 1
  /\ Last(chain).nonce > 0
  /\ ~MeetsTarget(Last(chain), 0)

\* The sum of the amounts of the transactions of txs, from the i-th on, that
\* the address a received, and that it sent.
RECURSIVE Received(_, _, _)
Received(txs, a, i) ==
  IF i > Len(txs) THEN 0
  ELSE (IF txs[i].recipient = a THEN txs[i].amount ELSE 0) + Received(txs, a, i + 1)

RECURSIVE Sent(_, _, _)
Sent(txs, a, i) ==
  IF i > Len(txs) THEN 0
  ELSE (IF txs[i].sender = a THEN txs[i].amount ELSE 0) + Sent(txs, a, i + 1)

\* The largest nonce + 1 among the transactions a sent, 0 when it sent none.
NextNonce(txs, a) ==
  LET mine == { i \in 1..Len(txs) : txs[i].sender = a }
  IN IF mine = {} THEN 0
     ELSE CHOOSE n \in { txs[i].nonce + 1 : i \in mine } :
            \A i \in mine : txs[i].nonce + 1 <= n

LedgerAddresses == Addresses \cup MinerAddresses \cup {PeerMiner} \cup Special

\* The projection of c is what the sums over the transactions of c give.
ProjectionIsSums(c) ==
  LET st == compute_balances_and_nonces(c)
      txs == FlatTxs(c, 1)
  IN /\ DOMAIN st.balances \subseteq LedgerAddresses
     /\ DOMAIN st.nonces \subseteq Addresses
     /\ \A a \in LedgerAddresses :
          /\ Get(st.balances, a, 0) =
               Received(txs, a, 1) - (IF a \in Special THEN 0 ELSE Sent(txs, a, 1))
          /\ a \notin Special => Get(st.nonces, a, 0) = NextNonce(txs, a)

\* Premine of 1000 to A, then a block of difficulty 1 with A sending 100 to B
\* at nonce 0.
ScenarioChain ==
  LET cfg == [initial_difficulty |-> 1, block_reward |-> 1,
              premine |-> << [recipient |-> "A", amount |-> 1000] >>]
      g == create_genesis_block(cfg, 1)
  IN << g, MineBlock(MineBase(g, << SignedTx("A", "B", 100, 0) >>, cfg.block_reward,
                              "M", 3)) >>

\* C16: the projection compute_balances_and_nonces gives of the node's chain
\* and of every served chain is, per address, received minus sent (sent by
\* non-special senders only) and, per non-special sender, the largest nonce
\* plus 1; on the premine-1000 scenario it is A 900, B 100, next nonce of A 1.
C16_ProjectionIsSums ==
  /\ \A c \in Served : ProjectionIsSums(c)
  /\ LET st == compute_balances_and_nonces(ScenarioChain)
     IN /\ ScenarioChain[2].difficulty = 1
        /\ st.balances["A"] = 900
        /\ st.balances["B"] = 100
        /\ st.nonces["A"] = 1

\* The node's chain holds transfers of both A and B.
C16_Witness ==
  LET st == compute_balances_and_nonces(chain)
  IN /\ Get(st.nonces, "A", 0) >= 1
     /\ Get(st.nonces, "B", 0) >= 1
     /\ Len(chain) = 3

\* The answers of the peers whose fetch did not fail, in the order visited.
Remaining(fetched) == SelectSeq(fetched, LAMBDA r : r # FetchFailed)

\* What resolve_conflicts returns and leaves as the chain when the peers
\* answer `fetched`.
Outcome(fetched) ==
  LET out == ResolveLoop(chain, [longest |-> chain, replaced |-> FALSE], fetched, 1)
  IN [ret |-> out.replaced, chain |-> IF out.replaced THEN out.longest ELSE chain]

\* C17: a peer whose fetch fails is skipped and resolve_conflicts goes on: for
\* every sequence of answers the registered peers may give, the flag returned
\* and the chain left are those of resolving over the peers that answered.
C17_FailedPeersSkipped ==
  \A fetched \in Fetches : Outcome(fetched) = Outcome(Remaining(fetched))

\* resolve_conflicts has adopted a chain in a call where a fetch failed.
C17_Witness ==
  /\ last.op = "resolve_conflicts"
  /\ last.skipped = TRUE
  /\ last.ret = TRUE
  /\ Cardinality(nodes) = 2

\* The blocks mine() may assemble in this state (one per miner address and
\* clock reading), nonce found.
MinedBlocks == { MineBlock(base) : base \in MineBases }

\* C18: mine() appends the assembled block only when validate_block accepts
\* it on the former last block; when validate_block rejects it, mine() ends in
\* the 'mined invalid block' error with the chain, the chain file and the
\* pending pool as they were.
C18_InvalidBlockNotAppended ==
  [][last'.op = "mine" =>
       IF last'.ret
         THEN /\ Last(chain') \in MinedBlocks
              /\ validate_block(chain, Last(chain'), Last(chain))
         ELSE /\ \E block \in MinedBlocks : ~validate_block(chain, block, Last(chain))
              /\ chain' = chain
              /\ current_transactions' = current_transactions
              /\ db' = db]_vars

\* mine() has just ended in the error, the pending pool still filled.
C18_Witness ==
  /\ last.op = "mine"
  /\ last.ret = FALSE
  /\ current_transactions # << >>

\* C19: in every state reached by new_transaction, mine and resolve_conflicts
\* a mine() call succeeds: it never ends in the 'mined invalid block' error,
\* so what the pending pool holds is in the chain after the next mine().
C19_MineAlwaysSucceeds ==
  last.op = "mine" => (last.ret = TRUE /\ current_transactions = << >>)

\* C20: validate_chain of the node accepts the node's own chain in every
\* state reached by new_transaction and mine from the genesis chain.
C20_OwnChainValidates ==
  validate_chain(chain, chain)

\* The sum of the values of the dict d over the keys in ks.
RECURSIVE SumOf(_, _)
SumOf(d, ks) ==
  IF ks = {} THEN 0
  ELSE LET k == CHOOSE x \in ks : TRUE IN d[k] + SumOf(d, ks \ {k})

\* The sum of the amounts of the special-sender transactions of txs, from the
\* i-th on: the supply issued.
RECURSIVE Issued(_, _)
Issued(txs, i) ==
  IF i > Len(txs) THEN 0
  ELSE (IF txs[i].sender \in Special THEN txs[i].amount ELSE 0) + Issued(txs, i + 1)

\* The balances of the projection of c add up to what c issued.
SupplyConserved(c) ==
  LET balances == compute_balances_and_nonces(c).balances
  IN SumOf(balances, DOMAIN balances) = Issued(FlatTxs(c, 1), 1)

\* C21: in every reachable state the balances compute_balances_and_nonces
\* returns add up to the amounts of the COINBASE and GENESIS_FAUCET
\* transactions of the chain; so do those of every served chain.
C21_SupplyConserved ==
  \A c \in Served : SupplyConserved(c)

\* The node's chain holds mined rewards on top of the premine and transfers
\* between non-special addresses that left one of them overdrawn.
C21_Witness ==
  LET balances == compute_balances_and_nonces(chain).balances
  IN /\ Issued(FlatTxs(chain, 1), 1) > PremineAmount
     /\ Len(TransfersOf(chain, "A")) + Len(TransfersOf(chain, "B")) >= 2
     /\ \E a \in DOMAIN balances : balances[a] < 0

====
